---- MODULE Spec2Model ----
(***************************************************************************)
(* Model of src/app.py ("Yalla Split & Pay"): the receipt parser           *)
(* extract_items and one run of the Streamlit script that uses it.         *)
(*                                                                         *)
(* Text is modelled character by character: a string is a sequence of      *)
(* one-character strings.  The four letters of the Arabic currency word    *)
(* are the atoms "jeem", "noon", "yeh", "heh".  Money is an integer number *)
(* of piasters (1/100 EGP); Python's round(x, 2) on a binary float is the  *)
(* nearest piaster, and at an exact decimal tie either neighbour (the      *)
(* direction depends on the float's binary expansion).                     *)
(*                                                                         *)
(* Three specifications share the variables:                               *)
(*   Spec      extract_items over a text of up to MaxLines sample lines    *)
(*   SpecLine  extract_items over a one-line text, the line built from     *)
(*             up to MaxTokens vocabulary tokens                           *)
(*   SpecApp   one run of the script body (lines 127-241)                  *)
(***************************************************************************)
EXTENDS Integers, Sequences, FiniteSets, TLC

VARIABLES
    \* extract_items (lines 19-76)
    text_lines,     \* the OCR lines (line 25)
    i,              \* enumerate index of the next line to process (line 32)
    line,           \* loop variable `line` as last assigned (lines 32, 37)
    line_clean,     \* local `line_clean` as last assigned (line 44)
    items,          \* the list `items` (lines 30, 69)
    srcs,           \* history: srcs[k] is the index of the line items[k] came from
    pc,             \* "loop" | "done" | "idle"
    \* the script run (lines 125-241)
    upc,            \* position of the script run
    df,             \* result of extract_items (line 129)
    raw_lines,      \* raw OCR lines of the fallback (line 136)
    df_selected,    \* Unbound | None | a table (lines 182, 202)
    summary,        \* the summary dict and per_person (lines 211-225)
    buttons,        \* what st.button / st.text_input returned (lines 232-239)
    pdf_path,       \* Unbound | the path generate_pdf returned (line 233)
    sent,           \* the attachment send_email was called with (line 240)
    err             \* the exception that ended the run, or "none"

vars == <<text_lines, i, line, line_clean, items, srcs, pc,
          upc, df, raw_lines, df_selected, summary, buttons, pdf_path, sent, err>>

exVars == <<text_lines, i, line, line_clean, items, srcs, pc>>
uiVars == <<upc, df, raw_lines, df_selected, summary, buttons, pdf_path, sent, err>>

----------------------------------------------------------------------------
(* Bounds *)

MaxLines == 3
MaxTokens == 3
MaxItems == 2
MaxQty == 2
MaxRaw == 2
MaxManual == 2
MaxPeople == 3

----------------------------------------------------------------------------
(* Characters *)

UpperChars == <<"A","B","C","D","E","F","G","H","I","J","K","L","M",
                "N","O","P","Q","R","S","T","U","V","W","X","Y","Z">>
LowerChars == <<"a","b","c","d","e","f","g","h","i","j","k","l","m",
                "n","o","p","q","r","s","t","u","v","w","x","y","z">>
DigitChars == <<"0","1","2","3","4","5","6","7","8","9">>
ArabicChars == {"jeem", "noon", "yeh", "heh"}

Range(s) == { s[k] : k \in DOMAIN s }

UpperSet == Range(UpperChars)
LowerSet == Range(LowerChars)
DigitSet == Range(DigitChars)
\* \w of Python's re on str: letters of any script, digits, underscore
WordSet == UpperSet \cup LowerSet \cup DigitSet \cup ArabicChars \cup {"_"}

LowerMap == [c \in UpperSet |-> LowerChars[CHOOSE k \in 1..26 : UpperChars[k] = c]]
UpperMap == [c \in LowerSet |-> UpperChars[CHOOSE k \in 1..26 : LowerChars[k] = c]]
DigitMap == [c \in DigitSet |-> (CHOOSE k \in 1..10 : DigitChars[k] = c) - 1]

IsUpper(c) == c \in UpperSet
IsLower(c) == c \in LowerSet
IsDigit(c) == c \in DigitSet
IsSpace(c) == c = " "
IsWord(c) == c \in WordSet

Lower(c) == IF c \in UpperSet THEN LowerMap[c] ELSE c
Upper(c) == IF c \in LowerSet THEN UpperMap[c] ELSE c
DigitVal(c) == DigitMap[c]

\* str.lower()
LowerStr(s) == [k \in 1..Len(s) |-> Lower(s[k])]

\* s[p : p + len(t)] == t, positions from 1
StartsWithAt(s, p, t) ==
    /\ p >= 1
    /\ p + Len(t) - 1 <= Len(s)
    /\ \A k \in 1..Len(t) : s[p + k - 1] = t[k]

\* `t in s`
Contains(s, t) == \E p \in 1..(Len(s) + 1) : StartsWithAt(s, p, t)

\* s[a-1 : b-1] of Python, as positions a..b-1 from 1
Slice(s, a, b) == [k \in 1..(b - a) |-> s[a + k - 1]]

----------------------------------------------------------------------------
(* extract_items: constants (lines 27-28) *)

ignore_keywords ==
    { <<"s","u","b","t","o","t","a","l">>, <<"v","a","t">>, <<"t","o","t","a","l">>,
      <<"s","e","r","v","i","c","e">>, <<"t","h","a","n","k">>, <<"c","o","u","n","t">>,
      <<"c","a","s","h">>, <<"p","a","y","m","e","n","t">>,
      <<"b","a","l","a","n","c","e">>, <<"%">>, <<"t","i","p">>,
      <<"d","e","l","i","v","e","r","y">> }

EGP == <<"E","G","P">>

currency_variants ==
    << EGP, <<"L","E">>, <<"L",".","E",".">>, <<"L",".","E">>,
       <<"jeem","noon","yeh","heh">> >>

UnnamedItem == <<"U","n","n","a","m","e","d"," ","I","t","e","m">>

----------------------------------------------------------------------------
(* extract_items: the steps of one loop iteration *)

\* any(x.lower() in line.lower() for x in ignore_keywords)   (lines 33, 58)
IgnoreLower == { LowerStr(x) : x \in ignore_keywords }

IsIgnored(l) ==
    LET low == LowerStr(l)
    IN  \E x \in IgnoreLower : Contains(low, x)

\* str.replace(old, new): leftmost non-overlapping occurrences, from position p
RECURSIVE ReplaceFrom(_, _, _, _)
ReplaceFrom(s, p, old, new) ==
    IF p > Len(s) THEN <<>>
    ELSE IF StartsWithAt(s, p, old)
         THEN new \o ReplaceFrom(s, p + Len(old), old, new)
         ELSE <<s[p]>> \o ReplaceFrom(s, p + 1, old, new)

Replace(s, old, new) == ReplaceFrom(s, 1, old, new)

\* for cur in currency_variants: line = line.replace(cur, "EGP")   (lines 36-37)
RECURSIVE FoldFrom(_, _)
FoldFrom(s, k) ==
    IF k > Len(currency_variants) THEN s
    ELSE FoldFrom(Replace(s, currency_variants[k], EGP), k + 1)

Fold(l) == FoldFrom(l, 1)

IsNum(c) == IsDigit(c) \/ c = ","

\* end (exclusive) of the longest run of [\d,] starting at p
NumRunEnd(s, p) ==
    CHOOSE q \in p..(Len(s) + 1) :
        /\ \A k \in p..(q - 1) : IsNum(s[k])
        /\ q = Len(s) + 1 \/ ~IsNum(s[q])

\* end (exclusive) of the longest run of \s starting at p
SkipSpace(s, p) ==
    CHOOSE q \in p..(Len(s) + 1) :
        /\ \A k \in p..(q - 1) : IsSpace(s[k])
        /\ q = Len(s) + 1 \/ ~IsSpace(s[q])

\* (EGP) under re.IGNORECASE at position p
IsEGPAt(s, p) ==
    /\ p >= 1
    /\ p + Len(EGP) - 1 <= Len(s)
    /\ \A k \in 1..Len(EGP) : Lower(s[p + k - 1]) = Lower(EGP[k])

NoMatch == [ok |-> FALSE, start |-> 0, g2 |-> 0, g2end |-> 0, end |-> 0]

\* \s*([\d,]+\.\d{2}) anchored at b: the greedy runs are the only ones that can
\* be followed by what the pattern asks next, so backtracking finds nothing else
NumberAt(s, b) ==
    LET w == SkipSpace(s, b)
        q == NumRunEnd(s, w)
    IN  IF /\ q > w
           /\ q + 2 <= Len(s)
           /\ s[q] = "."
           /\ IsDigit(s[q + 1])
           /\ IsDigit(s[q + 2])
        THEN [ok |-> TRUE, g2 |-> w, g2end |-> q + 3]
        ELSE [ok |-> FALSE, g2 |-> 0, g2end |-> 0]

\* (EGP)?\s*([\d,]+\.\d{2})\s*(EGP)? anchored at p   (lines 39, 44)
PriceMatchAt(s, p) ==
    LET withCur == IF IsEGPAt(s, p) THEN NumberAt(s, p + 3)
                   ELSE [ok |-> FALSE, g2 |-> 0, g2end |-> 0]
        n == IF withCur.ok THEN withCur ELSE NumberAt(s, p)
        t == SkipSpace(s, n.g2end)
    IN  IF n.ok
        THEN [ok |-> TRUE, start |-> p, g2 |-> n.g2, g2end |-> n.g2end,
              end |-> IF IsEGPAt(s, t) THEN t + 3 ELSE t]
        ELSE NoMatch

\* re.search(pattern, s) scanning from position `from`: the leftmost match
PriceSearch(s, from) ==
    LET starts == { p \in from..Len(s) : PriceMatchAt(s, p).ok }
    IN  IF starts = {} THEN NoMatch
        ELSE PriceMatchAt(s, CHOOSE p \in starts : \A r \in starts : p <= r)

\* re.sub(pattern, '', s) keeping only the first match (count=1)
ReSubFirstOnly(s) ==
    LET m == PriceSearch(s, 1)
    IN  IF m.ok THEN Slice(s, 1, m.start) \o Slice(s, m.end, Len(s) + 1) ELSE s

\* re.sub(pattern, '', s): every non-overlapping match removed, left to right
RECURSIVE ReSubFrom(_, _)
ReSubFrom(s, p) ==
    LET m == PriceSearch(s, p)
    IN  IF m.ok THEN Slice(s, p, m.start) \o ReSubFrom(s, m.end)
        ELSE Slice(s, p, Len(s) + 1)

ReSub(s) == ReSubFrom(s, 1)

\* str.strip()
Strip(s) ==
    LET keep == { k \in 1..Len(s) : ~IsSpace(s[k]) }
    IN  IF keep = {} THEN <<>>
        ELSE Slice(s, CHOOSE a \in keep : \A k \in keep : a <= k,
                      (CHOOSE b \in keep : \A k \in keep : b >= k) + 1)

\* line_clean   (line 44)
LineClean(l) == Strip(ReSub(l))

\* int() of a run of digits
RECURSIVE ParseInt(_)
ParseInt(ds) ==
    IF ds = <<>> THEN 0
    ELSE 10 * ParseInt(SubSeq(ds, 1, Len(ds) - 1)) + DigitVal(ds[Len(ds)])

\* float(group(2).replace(',', '')), in piasters   (line 43)
ParsePrice(g) ==
    LET n == Len(g)
        whole == SelectSeq(SubSeq(g, 1, n - 3), LAMBDA c : c # ",")
    IN  100 * ParseInt(whole) + 10 * DigitVal(g[n - 1]) + DigitVal(g[n])

Price(l) ==
    LET m == PriceSearch(l, 1) IN ParsePrice(Slice(l, m.g2, m.g2end))

IsSep(c) == IsSpace(c) \/ c \in {"-", "_", ".", "x", "X", "*"}

\* re.match(r'^(\d+)[\s\-_.xX*]*(.*)', line_clean)   (line 48)
QtyMatch(lc) ==
    LET d == CHOOSE q \in 1..(Len(lc) + 1) :
                 /\ \A k \in 1..(q - 1) : IsDigit(lc[k])
                 /\ q = Len(lc) + 1 \/ ~IsDigit(lc[q])
        e == CHOOSE q \in d..(Len(lc) + 1) :
                 /\ \A k \in d..(q - 1) : IsSep(lc[k])
                 /\ q = Len(lc) + 1 \/ ~IsSep(lc[q])
    IN  IF d = 1 THEN [ok |-> FALSE, g1 |-> <<>>, g2 |-> <<>>]
        ELSE [ok |-> TRUE, g1 |-> Slice(lc, 1, d), g2 |-> Slice(lc, e, Len(lc) + 1)]

\* qty   (lines 46-53)
Qty(lc) == IF QtyMatch(lc).ok THEN ParseInt(QtyMatch(lc).g1) ELSE 1

\* item_name before cleanup, idx the 0-based position of the line   (lines 47-61)
RawItemName(lines, idx, lc) ==
    IF QtyMatch(lc).ok THEN QtyMatch(lc).g2
    ELSE IF idx > 0
         THEN IF ~IsIgnored(lines[idx]) THEN lines[idx] ELSE <<>>
         ELSE lc

\* ' '.join(s.split())
RECURSIVE JoinSplitFrom(_, _)
JoinSplitFrom(s, p) ==
    IF p > Len(s) THEN <<>>
    ELSE IF IsSpace(s[p])
         THEN (IF /\ p > 1
                  /\ ~IsSpace(s[p - 1])
                  /\ \E k \in (p + 1)..Len(s) : ~IsSpace(s[k])
               THEN <<" ">> ELSE <<>>) \o JoinSplitFrom(s, p + 1)
         ELSE <<s[p]>> \o JoinSplitFrom(s, p + 1)

\* str.title()
Title(s) ==
    [k \in 1..Len(s) |->
        IF k > 1 /\ (IsUpper(s[k - 1]) \/ IsLower(s[k - 1]))
        THEN Lower(s[k]) ELSE Upper(s[k])]

\* lines 63-65 and the placeholder of line 70
CleanName(name) ==
    LET kept == SelectSeq(name, LAMBDA c : IsWord(c) \/ IsSpace(c))
        t == Title(JoinSplitFrom(kept, 1))
    IN  IF t = <<>> THEN UnnamedItem ELSE t

\* round(n / d, 2) for n piasters: the nearest piaster, either one at a tie
RoundChoices(n, d) ==
    LET q == n \div d
        r == n % d
    IN  IF 2 * r < d THEN {q} ELSE IF 2 * r > d THEN {q + 1} ELSE {q, q + 1}

\* unit_price   (line 67)
UnitPrices(price, qty) == IF qty > 0 THEN RoundChoices(price, qty) ELSE {price}

----------------------------------------------------------------------------
(* extract_items: the loop (lines 30-76) *)

\* a local name not assigned yet
Unbound == <<"unbound">>

\* the branch one iteration takes, checking the price before the denylist
ClassifyPriceFirst(raw) ==
    IF PriceSearch(Fold(raw), 1).ok THEN "item"
    ELSE IF IsIgnored(raw) THEN "ignored" ELSE "noprice"

\* the branch one iteration takes (lines 33-41)
Classify(raw) ==
    IF IsIgnored(raw) THEN "ignored"
    ELSE IF ~PriceSearch(Fold(raw), 1).ok THEN "noprice" ELSE "item"

\* the record appended for the line at 0-based position idx (lines 43-74)
ItemRecord(lines, idx, u) ==
    LET l == Fold(lines[idx + 1])
        lc == LineClean(l)
    IN  [Item |-> CleanName(RawItemName(lines, idx, lc)),
         QtyInvoice |-> Qty(lc),
         UnitPrice |-> u,
         Total |-> Price(l)]

\* list.insert(0, x)
PrependRecord(list, x) == <<x>> \o list

\* list.append(x)   (line 69)
AppendRecord(list, x) == Append(list, x)

\* line 33-34: a denylisted line is skipped before anything is assigned
SkipIgnored ==
    /\ pc = "loop"
    /\ i < Len(text_lines)
    /\ Classify(text_lines[i + 1]) = "ignored"
    /\ line' = text_lines[i + 1]
    /\ i' = i + 1
    /\ UNCHANGED <<text_lines, line_clean, items, srcs, pc>>
    /\ UNCHANGED uiVars

\* lines 36-41: folded, no price found
SkipNoPrice ==
    /\ pc = "loop"
    /\ i < Len(text_lines)
    /\ Classify(text_lines[i + 1]) = "noprice"
    /\ line' = Fold(text_lines[i + 1])
    /\ i' = i + 1
    /\ UNCHANGED <<text_lines, line_clean, items, srcs, pc>>
    /\ UNCHANGED uiVars

\* lines 36-74: folded, priced, a record appended
AppendItem ==
    /\ pc = "loop"
    /\ i < Len(text_lines)
    /\ Classify(text_lines[i + 1]) = "item"
    /\ line' = Fold(text_lines[i + 1])
    /\ line_clean' = LineClean(line')
    /\ \E u \in UnitPrices(Price(line'), Qty(line_clean')) :
          items' = AppendRecord(items, ItemRecord(text_lines, i, u))
    /\ srcs' = AppendRecord(srcs, i)
    /\ i' = i + 1
    /\ UNCHANGED <<text_lines, pc>>
    /\ UNCHANGED uiVars

\* line 76
Return ==
    /\ pc = "loop"
    /\ i = Len(text_lines)
    /\ pc' = "done"
    /\ UNCHANGED <<text_lines, i, line, line_clean, items, srcs>>
    /\ UNCHANGED uiVars

----------------------------------------------------------------------------
(* Inputs of extract_items *)

\* OCR lines a receipt can hold
SampleLines ==
    { <<"T","i","p"," ","1",".","5","0">>,
      <<"T","o","t","a","l">>,
      <<"t","e","a">>,
      <<"L","E"," ","1",".","5","0">>,
      <<"2","x"," ","t","e","a"," ","3",".","0","0">>,
      <<"t","e","a"," ","1",".","5","0"," ","2",".","5","0">>,
      <<"0"," ","t","e","a"," ","1",".","5","0">>,
      <<"1",".","5","0"," ","jeem","noon","yeh","heh">> }

RECURSIVE SeqsUpTo(_, _)
SeqsUpTo(S, n) ==
    IF n = 0 THEN {<<>>}
    ELSE LET prev == SeqsUpTo(S, n - 1)
         IN  prev \cup { Append(q, x) : q \in prev, x \in S }

\* pieces a one-line text is built from
Vocab ==
    { <<"1",".","5","0">>, <<"2">>, <<"0">>, <<" ">>, <<".">>, <<"%">>,
      <<"L">>, <<"L","E">>, <<"E","G","P">>, <<"e","g","p">>, <<"x">> }

RECURSIVE Concats(_)
Concats(n) ==
    IF n = 0 THEN {<<>>}
    ELSE LET prev == Concats(n - 1)
         IN  prev \cup { q \o t : q \in prev, t \in Vocab }

TokenLines == Concats(MaxTokens) \ {<<>>}

NoTable == [kind |-> "unbound", rows |-> <<>>]

NoSummary ==
    [set |-> FALSE, base |-> 0, service |-> 0, subtotal |-> 0, vat |-> 0,
     tip |-> 0, final |-> 0, people |-> 1, per_person |-> 0]

NoButtons == [generate |-> FALSE, send |-> FALSE, email_to |-> ""]

\* the script's names before the run assigns them
UiFresh ==
    /\ df = <<>>
    /\ raw_lines = <<>>
    /\ df_selected = NoTable
    /\ summary = NoSummary
    /\ buttons = NoButtons
    /\ pdf_path = Unbound
    /\ sent = Unbound
    /\ err = "none"

UiIdle == upc = "idle" /\ UiFresh

ExtractStart ==
    /\ i = 0
    /\ line = Unbound
    /\ line_clean = Unbound
    /\ items = <<>>
    /\ srcs = <<>>
    /\ pc = "loop"

Init ==
    /\ text_lines \in SeqsUpTo(SampleLines, MaxLines)
    /\ ExtractStart
    /\ UiIdle

InitLine ==
    /\ text_lines \in { <<l>> : l \in TokenLines }
    /\ ExtractStart
    /\ UiIdle

Next == SkipIgnored \/ SkipNoPrice \/ AppendItem \/ Return

Spec == Init /\ [][Next]_vars

SpecLine == InitLine /\ [][Next]_vars

----------------------------------------------------------------------------
(* Properties of extract_items *)

\* the line holds a digit or comma directly followed by a point and two digits
PriceShaped(l) ==
    \E b \in 1..(Len(l) - 3) :
        /\ l[b] \in DigitSet \cup {","}
        /\ l[b + 1] = "."
        /\ l[b + 2] \in DigitSet
        /\ l[b + 3] \in DigitSet

\* 1-based positions of the lines a record may come from
PricedCandidates ==
    { j \in 1..Len(text_lines) :
        ~IsIgnored(text_lines[j]) /\ PriceShaped(text_lines[j]) }

\* the iteration just finished appended a record
JustAppended == Len(srcs) > 0 /\ srcs[Len(srcs)] = i - 1

\* the iteration just finished folded its line (it was not denylisted)
JustFolded == i >= 1 /\ ~IsIgnored(text_lines[i])

\* C1: a line containing a denylist token (any letter case) yields no record,
\* priced or not, and there are never more records than non-denylisted lines
\* holding a price token.
DenylistExclusion ==
    /\ Len(srcs) = Len(items)
    /\ \A k \in 1..Len(srcs) : ~IsIgnored(text_lines[srcs[k] + 1])
    /\ Len(items) <= Cardinality(PricedCandidates)

\* C1 witness: the loop finished a text holding a denylisted line with a price
\* token and a priced candidate line, and made a record
DenylistExclusionWitness ==
    /\ pc = "done"
    /\ Len(items) >= 1
    /\ \E j \in 1..Len(text_lines) :
          IsIgnored(text_lines[j]) /\ PriceShaped(text_lines[j])

\* C2: for a priced candidate line whose line_clean does not start with an
\* integer, the name is the preceding line's when that line exists and is not
\* denylisted, and line_clean's own when the line is first or the preceding
\* line is denylisted; the quantity is 1.
NameFallback ==
    \A k \in 1..Len(srcs) :
        LET idx == srcs[k]
            lc == LineClean(Fold(text_lines[idx + 1]))
        IN  ~QtyMatch(lc).ok =>
              /\ items[k].QtyInvoice = 1
              /\ items[k].Item =
                    IF idx > 0 /\ ~IsIgnored(text_lines[idx])
                    THEN CleanName(text_lines[idx])
                    ELSE CleanName(lc)

\* C5: every record has a quantity of at least 1.
QuantityPositive == \A k \in 1..Len(items) : items[k].QtyInvoice >= 1

\* C6: records are in the order of their source lines; each comes from one
\* non-denylisted line holding a price token and carries that line's price,
\* and each such line processed so far has exactly one record.
OrderPreserved ==
    LET candidates == PricedCandidates
    IN  /\ Len(srcs) = Len(items)
        /\ \A a \in 1..Len(srcs), b \in 1..Len(srcs) : a < b => srcs[a] < srcs[b]
        /\ \A k \in 1..Len(srcs) :
              /\ srcs[k] + 1 \in candidates
              /\ items[k].Total = Price(Fold(text_lines[srcs[k] + 1]))
        /\ \A j \in candidates :
              j <= i => Cardinality({ k \in 1..Len(srcs) : srcs[k] = j - 1 }) = 1

\* C6 witness: the loop finished with two records whose source lines have a
\* line without a record between them
OrderPreservedWitness ==
    /\ pc = "done"
    /\ Len(items) >= 2
    /\ srcs[2] - srcs[1] >= 2

\* positions of l inside a match of the price pattern, scanning from p
RECURSIVE CoveredFrom(_, _)
CoveredFrom(l, p) ==
    LET m == PriceSearch(l, p)
    IN  IF m.ok THEN (m.start..(m.end - 1)) \cup CoveredFrom(l, m.end) ELSE {}

\* l restricted to the positions in keep, in order
RECURSIVE KeepFrom(_, _, _)
KeepFrom(l, p, keep) ==
    IF p > Len(l) THEN <<>>
    ELSE (IF p \in keep THEN <<l[p]>> ELSE <<>>) \o KeepFrom(l, p + 1, keep)

\* the folded line holds a second match after the first one
HasSecondMatch(l) ==
    PriceSearch(l, 1).ok /\ PriceSearch(l, PriceSearch(l, 1).end).ok

\* C7 as stated: line_clean is the folded line with only the first match (the
\* one whose number becomes the total) removed.
OnlyMatchedTokenRemoved ==
    JustAppended => line_clean = Strip(ReSubFirstOnly(line))

\* C7 as amended: line_clean is the folded line without any position that lies
\* in a match of the left-to-right scan, trimmed; with a second match on the
\* line it differs from removing the first match alone.
AllMatchesRemoved ==
    JustAppended =>
      /\ line_clean = Strip(KeepFrom(line, 1, (1..Len(line)) \ CoveredFrom(line, 1)))
      /\ HasSecondMatch(line) => line_clean # Strip(ReSubFirstOnly(line))

\* C7 witness: a record was made from a line with two matches and a remainder
AllMatchesRemovedWitness ==
    /\ JustAppended
    /\ HasSecondMatch(line)
    /\ line_clean # <<>>

\* C8: folding a folded line changes nothing, and no non-canonical currency
\* spelling is left in it.
FoldIdempotent ==
    JustFolded =>
      /\ Fold(line) = line
      /\ \A k \in 2..Len(currency_variants) : ~Contains(line, currency_variants[k])

----------------------------------------------------------------------------
(* The script run (lines 125-241): inputs *)

ServicePct == 12
VatPct == 14
DefaultManual == 5

Tea == <<"T","e","a">>
Cake == <<"C","a","k","e">>
ItemNames == {Tea, Cake}

\* line totals, tips and typed unit prices, in piasters
Totals == {5, 150}
Tips == {0, 5}
ManualPrices == {0, 5, 150}

\* rows extract_items can return: the unit price follows line 67
ExtractedRows ==
    UNION { { [Item |-> n, QtyInvoice |-> q, UnitPrice |-> u, Total |-> t] :
                n \in ItemNames, u \in UnitPrices(t, q) } :
            q \in 0..MaxQty, t \in Totals }

\* stripped non-blank lines of the raw OCR text (line 136)
RawSampleLines ==
    { <<"t","e","a">>,
      <<"0"," ","t","e","a">>,
      <<"2","x"," ","t","e","a">> }

\* what st.multiselect can return over df.index: distinct labels, in click order
Selections(d) ==
    { q \in SeqsUpTo(0..(Len(d) - 1), Len(d)) :
        \A a \in 1..Len(q), b \in 1..Len(q) : a # b => q[a] # q[b] }

\* rows of the manual form: qty and unit price as typed, total from line 173
ManualRows ==
    { [Item |-> n, Qty |-> q, UnitPrice |-> u, Total |-> q * u] :
        n \in ItemNames, q \in 1..MaxQty, u \in ManualPrices }

None == [kind |-> "none", rows |-> <<>>]
Table(rows) == [kind |-> "table", rows |-> rows]

PdfPath == <<"invoice.pdf">>

Min(a, b) == IF a <= b THEN a ELSE b

\* qty_guess of manual row k, from 0   (lines 147-165)
QtyGuess(lines, k) ==
    LET suggested_line == IF k < Len(lines) THEN lines[k + 1] ELSE <<>>
    IN  Qty(suggested_line)

\* df_selected["Total (EGP)"].sum()   (line 211)
RECURSIVE SumTotals(_)
SumTotals(rows) ==
    IF rows = <<>> THEN 0
    ELSE rows[Len(rows)].Total + SumTotals(SubSeq(rows, 1, Len(rows) - 1))

\* an exception ends the run
Raise(e) ==
    /\ upc' = "error"
    /\ err' = e

----------------------------------------------------------------------------
(* The script run: steps *)

\* line 127: nothing uploaded, the script ends
NoUpload ==
    /\ upc = "start"
    /\ upc' = "done"
    /\ UNCHANGED <<df, raw_lines, df_selected, summary, buttons, pdf_path, sent, err>>
    /\ UNCHANGED exVars

\* lines 128-129
ExtractItems ==
    /\ upc = "start"
    /\ df' \in SeqsUpTo(ExtractedRows, MaxItems)
    /\ upc' = "extracted"
    /\ UNCHANGED <<raw_lines, df_selected, summary, buttons, pdf_path, sent, err>>
    /\ UNCHANGED exVars

\* lines 131-143: the fallback reads the raw text and asks how many rows;
\* st.number_input raises when its default value is below min_value
ManualFallback ==
    /\ upc = "extracted"
    /\ df = <<>>
    /\ \E r \in SeqsUpTo(RawSampleLines, MaxRaw) :
          /\ raw_lines' = r
          /\ IF Min(DefaultManual, Len(r)) < 1
             THEN Raise("StreamlitAPIException")
             ELSE upc' = "manual" /\ err' = err
    /\ UNCHANGED <<df, df_selected, summary, buttons, pdf_path, sent>>
    /\ UNCHANGED exVars

\* lines 144-182: the rows of the manual form; the quantity input of a row
\* raises when qty_guess is below its min_value of 1
ManualItems ==
    /\ upc = "manual"
    /\ \E n \in 1..MaxManual :
          IF \E k \in 0..(n - 1) : QtyGuess(raw_lines, k) < 1
          THEN Raise("StreamlitAPIException") /\ df_selected' = df_selected
          ELSE /\ \E rows \in [1..n -> ManualRows] : df_selected' = Table(rows)
               /\ upc' = "selected"
               /\ err' = err
    /\ UNCHANGED <<df, raw_lines, summary, buttons, pdf_path, sent>>
    /\ UNCHANGED exVars

\* lines 184-202: the selection; a row's quantity input raises when the
\* invoice quantity is below 1 (value=1 above max_value) and when an earlier
\* selected row made a widget with the same label and limits
SelectItems ==
    /\ upc = "extracted"
    /\ df # <<>>
    /\ \E sel \in Selections(df) :
          LET row(k) == df[sel[k] + 1]
              dup(k) == \E j \in 1..(k - 1) :
                           /\ row(j).Item = row(k).Item
                           /\ row(j).QtyInvoice = row(k).QtyInvoice
              bad == { k \in 1..Len(sel) : row(k).QtyInvoice < 1 \/ dup(k) }
              first == CHOOSE k \in bad : \A j \in bad : k <= j
          IN  IF bad # {}
              THEN /\ Raise(IF row(first).QtyInvoice < 1
                            THEN "StreamlitAPIException" ELSE "DuplicateWidgetID")
                   /\ df_selected' = df_selected
              ELSE /\ \E qty \in [1..Len(sel) -> 1..MaxQty] :
                        /\ \A k \in 1..Len(sel) : qty[k] <= row(k).QtyInvoice
                        /\ df_selected' =
                              IF Len(sel) = 0 THEN None
                              ELSE Table([k \in 1..Len(sel) |->
                                     [Item |-> row(k).Item,
                                      Qty |-> qty[k],
                                      UnitPrice |-> row(k).UnitPrice,
                                      Total |-> qty[k] * row(k).UnitPrice]])
                   /\ upc' = "selected"
                   /\ err' = err
    /\ UNCHANGED <<df, raw_lines, summary, buttons, pdf_path, sent>>
    /\ UNCHANGED exVars

\* line 204: 'df_selected' in locals() and not df_selected.empty
TestSelected ==
    /\ upc = "selected"
    /\ IF df_selected.kind = "unbound" THEN upc' = "done" /\ err' = err
       ELSE IF df_selected.kind = "none" THEN Raise("AttributeError")
       ELSE IF df_selected.rows = <<>> THEN upc' = "done" /\ err' = err
       ELSE upc' = "summary" /\ err' = err
    /\ UNCHANGED <<df, raw_lines, df_selected, summary, buttons, pdf_path, sent>>
    /\ UNCHANGED exVars

\* lines 208-230
BillSummary ==
    /\ upc = "summary"
    /\ \E tip \in Tips, people \in 1..MaxPeople :
          LET base == SumTotals(df_selected.rows)
          IN  \E service \in RoundChoices(base * ServicePct, 100) :
                LET subtotal == base + service
                IN  \E vat \in RoundChoices(subtotal * VatPct, 100) :
                      LET final == subtotal + vat + tip
                      IN  \E per_person \in RoundChoices(final, people) :
                            summary' =
                              [set |-> TRUE, base |-> base, service |-> service,
                               subtotal |-> subtotal, vat |-> vat, tip |-> tip,
                               final |-> final, people |-> people,
                               per_person |-> per_person]
    /\ upc' = "buttons"
    /\ UNCHANGED <<df, raw_lines, df_selected, buttons, pdf_path, sent, err>>
    /\ UNCHANGED exVars

\* lines 232-241 in the run "Generate PDF Invoice" was clicked for
RunGeneratePdf ==
    /\ upc = "buttons"
    /\ \E email_to \in {"", "a@b.c"} :
          buttons' = [generate |-> TRUE, send |-> FALSE, email_to |-> email_to]
    /\ pdf_path' = PdfPath
    /\ upc' = "done"
    /\ UNCHANGED <<df, raw_lines, df_selected, summary, sent, err>>
    /\ UNCHANGED exVars

\* lines 232-241 in the run "Send Email" was clicked for: the first button is
\* False, so line 233 does not run; line 240 reads pdf_path
RunSendEmail ==
    /\ upc = "buttons"
    /\ \E email_to \in {"", "a@b.c"}, credentials \in BOOLEAN :
          /\ buttons' = [generate |-> FALSE, send |-> TRUE, email_to |-> email_to]
          /\ IF email_to = ""
             THEN upc' = "done" /\ err' = err /\ sent' = sent
             ELSE IF pdf_path = Unbound
                  THEN Raise("NameError") /\ sent' = sent
                  ELSE /\ sent' = IF credentials THEN pdf_path ELSE sent
                       /\ upc' = "done"
                       /\ err' = err
    /\ UNCHANGED <<df, raw_lines, df_selected, summary, pdf_path>>
    /\ UNCHANGED exVars

\* lines 232-241 in a run no button was clicked for
RunNoButton ==
    /\ upc = "buttons"
    /\ \E email_to \in {"", "a@b.c"} :
          buttons' = [generate |-> FALSE, send |-> FALSE, email_to |-> email_to]
    /\ upc' = "done"
    /\ UNCHANGED <<df, raw_lines, df_selected, summary, pdf_path, sent, err>>
    /\ UNCHANGED exVars

\* the next interaction runs the script again from line 1, with no name of
\* the previous run bound
Rerun ==
    /\ upc \in {"done", "error"}
    /\ upc' = "start"
    /\ df' = <<>>
    /\ raw_lines' = <<>>
    /\ df_selected' = NoTable
    /\ summary' = NoSummary
    /\ buttons' = NoButtons
    /\ pdf_path' = Unbound
    /\ sent' = Unbound
    /\ err' = "none"
    /\ UNCHANGED exVars

InitApp ==
    /\ text_lines = <<>>
    /\ i = 0
    /\ line = Unbound
    /\ line_clean = Unbound
    /\ items = <<>>
    /\ srcs = <<>>
    /\ pc = "idle"
    /\ upc = "start"
    /\ UiFresh

NextApp ==
    \/ NoUpload
    \/ ExtractItems
    \/ ManualFallback
    \/ ManualItems
    \/ SelectItems
    \/ TestSelected
    \/ BillSummary
    \/ RunGeneratePdf
    \/ RunSendEmail
    \/ RunNoButton
    \/ Rerun

SpecApp == InitApp /\ [][NextApp]_vars

----------------------------------------------------------------------------
(* Properties of the script run *)

\* 10000 times the grand total of the summary before any rounding:
\* base + base*s/100 + (base + base*s/100)*v/100 + tip
UnroundedTotal(base, tip) ==
    base * (10000 + 100 * ServicePct + (100 + ServicePct) * VatPct) + 10000 * tip

\* C3: the grand total is the 2-decimal rounding of the unrounded
\* subtotal + service + VAT + tip, and per-person the 2-decimal rounding of
\* that unrounded total divided by the party size.
UnroundedIntermediates ==
    summary.set =>
      /\ summary.final \in RoundChoices(UnroundedTotal(summary.base, summary.tip), 10000)
      /\ summary.per_person \in
            RoundChoices(UnroundedTotal(summary.base, summary.tip),
                         10000 * summary.people)

\* C4: a run whose extraction yields no item reaches the manual-entry form
\* and never ends with an exception.
ZeroItemsManualEntry ==
    (upc \notin {"start", "idle"} /\ df = <<>>) => err = "none"

\* C9: in a run where "Send Email" is pressed with a recipient, pdf_path is
\* bound, so send_email gets a path generate_pdf produced.
SendHasAttachment ==
    (buttons.send /\ buttons.email_to # "") => pdf_path = PdfPath

\* every row of df has an invoice quantity of at least 1
QuantitiesValid == \A k \in 1..Len(df) : df[k].QtyInvoice >= 1

\* C10: after a non-empty extraction df_selected is a table whenever its
\* emptiness is tested, for every selection, and the test raises nothing.
SelectionIsTable ==
    (df # <<>> /\ QuantitiesValid) =>
      /\ upc = "selected" => df_selected.kind = "table"
      /\ err # "AttributeError"

====
